---- MODULE Spec2Model ----
(***************************************************************************)
(* Inventory Management API: the item endpoints of InventoryItemViewSet,   *)
(* the change log they write, the account deletion of UserViewSet and the  *)
(* refresh-token blacklist used by user_logout.                            *)
(*                                                                         *)
(* The database is the pair (items, logs) plus the set of user rows.  A    *)
(* request handler is a sequence of database statements; every statement   *)
(* is one step, so that two handlers can interleave between statements     *)
(* (the handlers open no transaction.atomic block).  The variable conc     *)
(* is the number of requests the server handles at the same time.          *)
(*                                                                         *)
(* Requests carry no category/price/search/ordering parameter; low_stock,  *)
(* which get_queryset itself reads, is modelled.  Prices are in cents.     *)
(***************************************************************************)
EXTENDS Integers, Sequences, FiniteSets, TLC

\* ---------------------------------------------------------------- bounds
MaxRequests == 2      \* requests started in one behaviour
MaxItems == 3         \* item rows ever created (primary keys 1..MaxItems)
MaxQty == 2           \* largest quantity a create/update request carries
MaxDelta == 2         \* largest |delta| an adjust_quantity request carries
MaxConc == 2          \* requests in flight at once under SpecConc
MaxTokens == 2        \* refresh tokens ever issued
MaxAuthRequests == 3  \* login/logout/refresh requests started in one behaviour

\* ---------------------------------------------------------------- values
Null == "null"
Anonymous == "anonymous"
UserIds == {"owner", "other", "admin"}
StaffIds == {"admin"}
Callers == UserIds \cup {Anonymous}
ItemIds == 1..MaxItems
Slots == 1..MaxConc
Reasons == {"sale"}
Digit == {"0", "1", "2", "3", "4", "5", "6", "7", "8", "9"}

VARIABLES
    users,      \* CustomUser rows: the set of existing user ids
    items,      \* InventoryItem rows: primary key -> [user, name, quantity, price]
                \* and quantity0, the quantity the row was created with
    logs,       \* InventoryChangeLog rows in creation order
    nextItemId, \* next InventoryItem primary key
    nextLogId,  \* next InventoryChangeLog primary key
    reqs,       \* slot -> the request in flight there (Idle when none)
    resp,       \* the response sent last
    nreq,       \* requests started so far
    conc,       \* requests handled at once
    outstanding, \* refresh tokens issued
    blacklist,  \* refresh tokens blacklisted
    expired,    \* refresh tokens past their lifetime
    naccess,    \* access tokens minted so far
    registered  \* CustomUser rows made by registration, in creation order

vars == <<users, items, logs, nextItemId, nextLogId, reqs, resp, nreq, conc,
          outstanding, blacklist, expired, naccess, registered>>
dbVars == <<users, items, logs, nextItemId, nextLogId>>
tokenVars == <<outstanding, blacklist, expired, naccess>>

\* ------------------------------------------------------- python int(...)
DigitVal(c) ==
    CASE c = "0" -> 0 [] c = "1" -> 1 [] c = "2" -> 2 [] c = "3" -> 3
      [] c = "4" -> 4 [] c = "5" -> 5 [] c = "6" -> 6 [] c = "7" -> 7
      [] c = "8" -> 8 [] OTHER -> 9

RECURSIVE DigitsVal(_)
DigitsVal(t) ==
    IF t = <<>> THEN 0
    ELSE 10 * DigitsVal(SubSeq(t, 1, Len(t) - 1)) + DigitVal(t[Len(t)])

AllDigits(t) == t # <<>> /\ \A k \in 1..Len(t) : t[k] \in Digit

Failed == [ok |-> FALSE, val |-> 0]

\* int(text) of a str: an optional sign, then one or more digits.
PyIntText(t) ==
    IF t # <<>> /\ t[1] \in {"-", "+"}
    THEN IF AllDigits(Tail(t))
         THEN [ok |-> TRUE,
               val |-> IF t[1] = "-" THEN 0 - DigitsVal(Tail(t)) ELSE DigitsVal(Tail(t))]
         ELSE Failed
    ELSE IF AllDigits(t) THEN [ok |-> TRUE, val |-> DigitsVal(t)] ELSE Failed

\* A JSON value of the request body: t is null (key absent or JSON null), int,
\* float (n counts halves: n = 3 is 1.5) or str (text, a sequence of characters).
JNull == [t |-> "null", n |-> 0, text |-> <<>>]
JInt(n) == [t |-> "int", n |-> n, text |-> <<>>]
JFloat(h) == [t |-> "float", n |-> h, text |-> <<>>]
JStr(s) == [t |-> "str", n |-> 0, text |-> s]

\* int(x): TypeError on None, the integer itself, a float truncated toward
\* zero, a str parsed.
PyInt(x) ==
    CASE x.t = "null" -> Failed
      [] x.t = "int" -> [ok |-> TRUE, val |-> x.n]
      [] x.t = "float" ->
            [ok |-> TRUE, val |-> IF x.n >= 0 THEN x.n \div 2 ELSE 0 - ((0 - x.n) \div 2)]
      [] OTHER -> PyIntText(x.text)

Max(a, b) == IF a >= b THEN a ELSE b

\* ------------------------------------------------------------ the inputs
\* An optional key of a request (query parameter or body key).
Absent(v) == [given |-> FALSE, val |-> v]
Given(v) == [given |-> TRUE, val |-> v]

IntDeltas == {JInt(n) : n \in (0 - MaxDelta)..MaxDelta}
DeltaInputs == IntDeltas \cup {JNull, JFloat(3), JStr(<<"a">>), JStr(<<"-", "1">>)}
LowStockParams == {Absent(<<>>), Given(<<"1">>), Given(<<"x">>)}
ReasonInputs == {Absent("")} \cup {Given(r) : r \in Reasons}
QtyInputs == {Absent(0)} \cup {Given(q) : q \in (0 - 1)..MaxQty}

\* The body of a create request: with or without a "user" key.
CreatePayloads ==
    [name : {Absent(""), Given("A")}, quantity : QtyInputs,
     price : {Absent(0), Given(0), Given(199)},
     user : {Absent(Null), Given("other")}, reason : {Absent("")}]

\* The body of a PUT (every required field) and of a PATCH (any fields).
PutPayloads ==
    [name : {Given("B")}, quantity : QtyInputs, price : {Given(0), Given(199)},
     user : {Absent(Null)}, reason : ReasonInputs]
PatchPayloads ==
    [name : {Absent(""), Given("B")}, quantity : QtyInputs,
     price : {Absent(0), Given(0 - 1)}, user : {Absent(Null)}, reason : ReasonInputs]

\* -------------------------------------------------------------- records
NoItem == [user |-> Null, name |-> "", quantity |-> 0, price |-> 0, quantity0 |-> 0]
NoData == [name |-> Absent(""), quantity |-> Absent(0), price |-> Absent(0),
           user |-> Absent(Null), reason |-> Absent("")]

\* A request: its inputs (user is the caller), the handler's position pc and
\* local variables (inst is the instance get_object returned, before and
\* after are the handler's locals), and items0/logs0/registered0, the
\* database as it was when the request arrived.
Idle == [kind |-> "idle", pc |-> "", user |-> Null, pk |-> 0, low |-> Absent(<<>>),
         delta |-> JNull, reason |-> Absent(""), data |-> NoData, target |-> Null,
         refresh |-> Absent(0),
         username |-> Absent(""), email |-> Absent(<<>>), password |-> Absent(0),
         inst |-> NoItem, before |-> 0, after |-> 0,
         items0 |-> <<>>, logs0 |-> <<>>, blacklist0 |-> {}, naccess0 |-> 0,
         registered0 |-> <<>>]

Request(kind, u, pk, low) ==
    [Idle EXCEPT !.kind = kind, !.user = u, !.pk = pk, !.low = low,
                 !.items0 = items, !.logs0 = logs,
                 !.blacklist0 = blacklist, !.naccess0 = naccess,
                 !.registered0 = registered]

\* A response: its status, the request it answers, and of its body ids (the
\* items a list/levels/retrieve shows, the item a create made), rows (the rows
\* a history shows), quantity (adjust_quantity's "quantity") and error.
Response(req, status) ==
    [status |-> status, req |-> req, ids |-> {}, rows |-> <<>>, quantity |-> 0,
     error |-> ""]

NoResp == Response(Idle, 0)

IsStaff(u) == u \in StaffIds

\* ------------------------------------------------------ the item queryset
\* The queryset without the owner filter.
GetQuerysetUnscoped(u, low) ==
    LET threshold == PyIntText(low.val)
    IN IF low.given /\ threshold.ok
       THEN {i \in DOMAIN items : items[i].quantity < threshold.val}
       ELSE DOMAIN items

\* InventoryItemViewSet.get_queryset: the caller's items (every item for
\* staff), cut to quantity < threshold when low_stock parses as an integer.
GetQueryset(u, low) ==
    LET all == DOMAIN items
        own == IF ~IsStaff(u) THEN {i \in all : items[i].user = u} ELSE all
        threshold == PyIntText(low.val)
    IN IF low.given /\ threshold.ok
       THEN {i \in own : items[i].quantity < threshold.val}
       ELSE own

\* permissions.IsOwner.has_object_permission
IsOwner(u, obj) == obj.user = u \/ IsStaff(u)

\* The outcome of authentication and get_object(): 401 for no valid user, 404
\* for an item outside the queryset, 403 from the object permission.
GetObject(u, pk, low) ==
    IF u \notin users THEN 401
    ELSE IF pk \notin GetQueryset(u, low) THEN 404
    ELSE IF ~IsOwner(u, items[pk]) THEN 403
    ELSE 200

\* ---------------------------------------------------------- the serializer
ValidateQuantity(value) == value >= 0

\* A price of zero let through.
ValidatePriceNonNegative(value) == value >= 0

ValidatePrice(value) == value > 0

\* InventoryItemSerializer.is_valid: name and price are required unless the
\* update is partial; a quantity or price that is given passes its validator.
IsValid(data, partial) ==
    /\ partial \/ (data.name.given /\ data.price.given)
    /\ data.quantity.given => ValidateQuantity(data.quantity.val)
    /\ data.price.given => ValidatePrice(data.price.val)

\* ModelSerializer.update: the validated fields set on the instance (user is
\* read-only and reason is no field of the serializer).
ApplyData(inst, data) ==
    [inst EXCEPT !.name = IF data.name.given THEN data.name.val ELSE @,
                 !.quantity = IF data.quantity.given THEN data.quantity.val ELSE @,
                 !.price = IF data.price.given THEN data.price.val ELSE @]

\* The owner taken from the body when it names one.
CreatedOwnerFromBody(u, data) == IF data.user.given THEN data.user.val ELSE u

\* perform_create: serializer.save(user=self.request.user)
CreatedOwner(u, data) == u

NewItem(u, data) ==
    LET quantity == IF data.quantity.given THEN data.quantity.val ELSE 0 IN
    [user |-> CreatedOwner(u, data), name |-> data.name.val,
     quantity |-> quantity, price |-> data.price.val, quantity0 |-> quantity]

\* ------------------------------------------------------------ change log
\* The row written with before and after exchanged.
LogRowSwapped(id, pk, u, before, after, reason) ==
    [id |-> id, item |-> pk, performed_by |-> u, quantity_before |-> after,
     quantity_after |-> before, delta |-> before - after, reason |-> reason]

LogRow(id, pk, u, before, after, reason) ==
    [id |-> id, item |-> pk, performed_by |-> u, quantity_before |-> before,
     quantity_after |-> after, delta |-> after - before, reason |-> reason]

\* InventoryChangeLog.objects.create: the foreign keys must name stored rows.
CanCreateLog(pk, u) == pk \in DOMAIN items /\ u \in users

RowsOf(rows, pk) == SelectSeq(rows, LAMBDA r : r.item = pk)

RECURSIVE Reverse(_)
Reverse(q) == IF q = <<>> THEN <<>> ELSE Append(Reverse(Tail(q)), Head(q))

\* ----------------------------------------------------------------- Init
\* The database holds the three accounts and no item, or one item of each
\* non-staff account with no quantity change yet, or these two items after
\* the staff account restocked the second one (created empty) by one.
SeedItems ==
    (1 :> [user |-> "owner", name |-> "A", quantity |-> 1, price |-> 199,
           quantity0 |-> 1]) @@
    (2 :> [user |-> "other", name |-> "A", quantity |-> 1, price |-> 199,
           quantity0 |-> 1])

\* The second item created empty.
SeedItemsRestocked == [SeedItems EXCEPT ![2].quantity0 = 0]

SeedLogs == <<LogRow(1, 2, "admin", 0, 1, "sale")>>

InitDb ==
    /\ users = UserIds
    /\ \/ items = <<>> /\ nextItemId = 1 /\ logs = <<>> /\ nextLogId = 1
       \/ items = SeedItems /\ nextItemId = 3 /\ logs = <<>> /\ nextLogId = 1
       \/ items = SeedItemsRestocked /\ nextItemId = 3 /\ logs = SeedLogs /\ nextLogId = 2
    /\ reqs = [s \in Slots |-> Idle]
    /\ resp = NoResp
    /\ nreq = 0
    /\ outstanding = {}
    /\ blacklist = {}
    /\ expired = {}
    /\ naccess = 0
    /\ registered = <<>>

Init == InitDb /\ conc = 1

\* A request can start in slot s: the worker is free (the lowest free one is
\* taken), the last response is delivered and the budget is not spent.
CanStart(s) ==
    /\ nreq < MaxRequests
    /\ resp = NoResp
    /\ s <= conc
    /\ reqs[s] = Idle
    /\ \A t \in Slots : t < s => reqs[t] # Idle

\* The handler of slot s is at pc.
At(s, kinds, pc) == resp = NoResp /\ reqs[s].kind \in kinds /\ reqs[s].pc = pc

\* The request of slot s ends with response r.
Finish(s, r) == resp' = r /\ reqs' = [reqs EXCEPT ![s] = Idle]

\* The handler of slot s goes on as r.
Continue(s, r) == resp' = resp /\ reqs' = [reqs EXCEPT ![s] = r]

\* The response reaches the client.
Deliver ==
    /\ resp # NoResp
    /\ resp' = NoResp
    /\ UNCHANGED <<dbVars, reqs, nreq, conc, tokenVars, registered>>

\* ------------------------------------------------------- adjust_quantity
\* The sum without the floor.
AdjustedQuantityUnfloored(before, delta) == before + delta

\* after = max(0, before + delta)
AdjustedQuantity(before, delta) == Max(0, before + delta)

AdjustStart(s) ==
    /\ CanStart(s)
    /\ nreq' = nreq + 1
    /\ \E u \in Callers, pk \in ItemIds, low \in LowStockParams,
          delta \in DeltaInputs, reason \in ReasonInputs :
        LET st == GetObject(u, pk, low)
            d == PyInt(delta)
            r == [Request("adjust_quantity", u, pk, low) EXCEPT
                      !.delta = delta, !.reason = reason]
        IN IF st # 200 THEN Finish(s, Response(r, st))
           ELSE IF ~d.ok
           THEN Finish(s, [Response(r, 400) EXCEPT !.error = "delta must be an integer"])
           ELSE Continue(s, [r EXCEPT !.pc = "save", !.inst = items[pk],
                                      !.before = items[pk].quantity,
                                      !.after = AdjustedQuantity(items[pk].quantity, d.val)])
    /\ UNCHANGED <<dbVars, conc, tokenVars, registered>>

\* item.save(update_fields=['quantity', 'last_updated']): an UPDATE of the one
\* row; Django raises DatabaseError when it matches no row.
AdjustSave(s) ==
    LET r == reqs[s] IN
    /\ At(s, {"adjust_quantity"}, "save")
    /\ IF r.pk \in DOMAIN items
       THEN /\ items' = [items EXCEPT ![r.pk].quantity = r.after]
            /\ Continue(s, [r EXCEPT !.pc = "log", !.inst.quantity = r.after])
       ELSE /\ items' = items
            /\ Finish(s, Response(r, 500))
    /\ UNCHANGED <<users, logs, nextItemId, nextLogId, nreq, conc, tokenVars, registered>>

\* The adjustment logged only when the quantity changed, as update does.
AdjustLogIfChanged(s) ==
    LET r == reqs[s] IN
    /\ At(s, {"adjust_quantity"}, "log")
    /\ IF CanCreateLog(r.pk, r.user)
       THEN /\ IF r.before # r.after
               THEN /\ logs' = Append(logs, LogRow(nextLogId, r.pk, r.user, r.before,
                                                   r.after, r.reason.val))
                    /\ nextLogId' = nextLogId + 1
               ELSE UNCHANGED <<logs, nextLogId>>
            /\ Finish(s, [Response(r, 200) EXCEPT !.ids = {r.pk},
                                                  !.quantity = r.inst.quantity])
       ELSE /\ UNCHANGED <<logs, nextLogId>>
            /\ Finish(s, Response(r, 500))
    /\ UNCHANGED <<users, items, nextItemId, nreq, conc, tokenVars, registered>>

AdjustLog(s) ==
    LET r == reqs[s] IN
    /\ At(s, {"adjust_quantity"}, "log")
    /\ IF CanCreateLog(r.pk, r.user)
       THEN /\ logs' = Append(logs, LogRow(nextLogId, r.pk, r.user, r.before, r.after,
                                            r.reason.val))
            /\ nextLogId' = nextLogId + 1
            /\ Finish(s, [Response(r, 200) EXCEPT !.ids = {r.pk},
                                                  !.quantity = r.inst.quantity])
       ELSE /\ UNCHANGED <<logs, nextLogId>>
            /\ Finish(s, Response(r, 500))
    /\ UNCHANGED <<users, items, nextItemId, nreq, conc, tokenVars, registered>>

\* ----------------------------------------------------------------- create
Create(s) ==
    /\ CanStart(s)
    /\ nreq' = nreq + 1
    /\ \E u \in Callers, data \in CreatePayloads :
        LET r == [Request("create", u, 0, Absent(<<>>)) EXCEPT !.data = data]
        IN IF u \notin users
           THEN Finish(s, Response(r, 401)) /\ UNCHANGED <<items, nextItemId>>
           ELSE IF ~IsValid(data, FALSE)
           THEN Finish(s, Response(r, 400)) /\ UNCHANGED <<items, nextItemId>>
           ELSE /\ nextItemId <= MaxItems
                /\ items' = (nextItemId :> NewItem(u, data)) @@ items
                /\ nextItemId' = nextItemId + 1
                /\ Finish(s, [Response(r, 201) EXCEPT !.ids = {nextItemId}])
    /\ UNCHANGED <<users, logs, nextLogId, conc, tokenVars, registered>>

\* ------------------------------------------------------- update (PUT/PATCH)
Updates == {"update", "partial_update"}

\* UpdateModelMixin.update up to perform_update: get_object, then validation.
UpdateStart(s) ==
    /\ CanStart(s)
    /\ nreq' = nreq + 1
    /\ \E u \in Callers, pk \in ItemIds, low \in LowStockParams, kind \in Updates :
        \E data \in IF kind = "update" THEN PutPayloads ELSE PatchPayloads :
        LET st == GetObject(u, pk, low)
            r == [Request(kind, u, pk, low) EXCEPT !.data = data]
        IN IF st # 200 THEN Finish(s, Response(r, st))
           ELSE IF ~IsValid(data, kind = "partial_update")
           THEN Finish(s, Response(r, 400))
           ELSE Continue(s, [r EXCEPT !.pc = "reread", !.inst = items[pk]])
    /\ UNCHANGED <<dbVars, conc, tokenVars, registered>>

\* perform_update: instance = self.get_object(); before = instance.quantity
UpdateReread(s) ==
    LET r == reqs[s]
        st == GetObject(r.user, r.pk, r.low)
    IN
    /\ At(s, Updates, "reread")
    /\ IF st # 200 THEN Finish(s, Response(r, st))
       ELSE Continue(s, [r EXCEPT !.pc = "save", !.before = items[r.pk].quantity])
    /\ UNCHANGED <<dbVars, nreq, conc, tokenVars, registered>>

\* perform_update: item = serializer.save(); after = item.quantity.  save()
\* writes every field of the serializer's instance: an UPDATE, or an INSERT
\* when the row is gone (refused when the owner row is gone too).
UpdateSave(s) ==
    LET r == reqs[s]
        item == ApplyData(r.inst, r.data)
        after == item.quantity
    IN
    /\ At(s, Updates, "save")
    /\ IF r.pk \notin DOMAIN items /\ item.user \notin users
       THEN /\ items' = items
            /\ Finish(s, Response(r, 500))
       ELSE /\ items' = (r.pk :> item) @@ items
            /\ IF r.before # after
               THEN Continue(s, [r EXCEPT !.pc = "log", !.after = after, !.inst = item])
               ELSE Finish(s, [Response(r, 200) EXCEPT !.ids = {r.pk}])
    /\ UNCHANGED <<users, logs, nextItemId, nextLogId, nreq, conc, tokenVars, registered>>

\* The row written without the request's reason.
UpdateLogNoReason(s) ==
    LET r == reqs[s] IN
    /\ At(s, Updates, "log")
    /\ IF CanCreateLog(r.pk, r.user)
       THEN /\ logs' = Append(logs, LogRow(nextLogId, r.pk, r.user, r.before, r.after, ""))
            /\ nextLogId' = nextLogId + 1
            /\ Finish(s, [Response(r, 200) EXCEPT !.ids = {r.pk}])
       ELSE /\ UNCHANGED <<logs, nextLogId>>
            /\ Finish(s, Response(r, 500))
    /\ UNCHANGED <<users, items, nextItemId, nreq, conc, tokenVars, registered>>

UpdateLog(s) ==
    LET r == reqs[s] IN
    /\ At(s, Updates, "log")
    /\ IF CanCreateLog(r.pk, r.user)
       THEN /\ logs' = Append(logs, LogRow(nextLogId, r.pk, r.user, r.before, r.after,
                                            r.data.reason.val))
            /\ nextLogId' = nextLogId + 1
            /\ Finish(s, [Response(r, 200) EXCEPT !.ids = {r.pk}])
       ELSE /\ UNCHANGED <<logs, nextLogId>>
            /\ Finish(s, Response(r, 500))
    /\ UNCHANGED <<users, items, nextItemId, nreq, conc, tokenVars, registered>>

\* ------------------------------------------------------------------ delete
\* A delete that takes every row of the change log with it.
WithoutItemsAll(rows, gone) == IF gone = {} THEN rows ELSE <<>>

\* on_delete=CASCADE of InventoryChangeLog.item
WithoutItems(rows, gone) == SelectSeq(rows, LAMBDA r : r.item \notin gone)

Restrict(f, keep) == [k \in keep |-> f[k]]

Destroy(s) ==
    /\ CanStart(s)
    /\ nreq' = nreq + 1
    /\ \E u \in Callers, pk \in ItemIds, low \in LowStockParams :
        LET st == GetObject(u, pk, low)
            r == Request("destroy", u, pk, low)
        IN IF st # 200
           THEN Finish(s, Response(r, st)) /\ UNCHANGED <<items, logs>>
           ELSE /\ items' = Restrict(items, DOMAIN items \ {pk})
                /\ logs' = WithoutItems(logs, {pk})
                /\ Finish(s, Response(r, 204))
    /\ UNCHANGED <<users, nextItemId, nextLogId, conc, tokenVars, registered>>

\* ------------------------------------------------------------------- reads
List(s) ==
    /\ CanStart(s)
    /\ nreq' = nreq + 1
    /\ \E u \in Callers, low \in LowStockParams :
        LET r == Request("list", u, 0, low)
        IN IF u \notin users THEN Finish(s, Response(r, 401))
           ELSE Finish(s, [Response(r, 200) EXCEPT !.ids = GetQueryset(u, low)])
    /\ UNCHANGED <<dbVars, conc, tokenVars, registered>>

Levels(s) ==
    /\ CanStart(s)
    /\ nreq' = nreq + 1
    /\ \E u \in Callers, low \in LowStockParams :
        LET r == Request("levels", u, 0, low)
        IN IF u \notin users THEN Finish(s, Response(r, 401))
           ELSE Finish(s, [Response(r, 200) EXCEPT !.ids = GetQueryset(u, low)])
    /\ UNCHANGED <<dbVars, conc, tokenVars, registered>>

Retrieve(s) ==
    /\ CanStart(s)
    /\ nreq' = nreq + 1
    /\ \E u \in Callers, pk \in ItemIds, low \in LowStockParams :
        LET st == GetObject(u, pk, low)
            r == Request("retrieve", u, pk, low)
        IN IF st # 200 THEN Finish(s, Response(r, st))
           ELSE Finish(s, [Response(r, 200) EXCEPT !.ids = {pk}])
    /\ UNCHANGED <<dbVars, conc, tokenVars, registered>>

\* history: item.changes.all(), ordered newest first (Meta.ordering)
History(s) ==
    /\ CanStart(s)
    /\ nreq' = nreq + 1
    /\ \E u \in Callers, pk \in ItemIds, low \in LowStockParams :
        LET st == GetObject(u, pk, low)
            r == Request("history", u, pk, low)
        IN IF st # 200 THEN Finish(s, Response(r, st))
           ELSE Finish(s, [Response(r, 200) EXCEPT
                               !.ids = {pk}, !.rows = Reverse(RowsOf(logs, pk))])
    /\ UNCHANGED <<dbVars, conc, tokenVars, registered>>

\* ------------------------------------------------------- DELETE /users/{id}/
\* UserViewSet.get_queryset: every user for staff, the caller alone otherwise.
UserQueryset(u) == IF IsStaff(u) THEN users ELSE users \cap {u}

\* on_delete=SET_NULL of InventoryChangeLog.performed_by
ClearPerformedBy(rows, gone) ==
    [k \in DOMAIN rows |->
        IF rows[k].performed_by = gone
        THEN [rows[k] EXCEPT !.performed_by = Null] ELSE rows[k]]

\* on_delete=CASCADE of InventoryItem.user
OwnedBy(u) == {i \in DOMAIN items : items[i].user = u}

UserDestroy(s) ==
    /\ CanStart(s)
    /\ nreq' = nreq + 1
    /\ \E u \in Callers, target \in UserIds :
        LET r == [Request("user_destroy", u, 0, Absent(<<>>)) EXCEPT !.target = target]
        IN IF u \notin users
           THEN Finish(s, Response(r, 401)) /\ UNCHANGED <<users, items, logs>>
           ELSE IF target \notin UserQueryset(u)
           THEN Finish(s, Response(r, 404)) /\ UNCHANGED <<users, items, logs>>
           ELSE /\ users' = users \ {target}
                /\ items' = Restrict(items, DOMAIN items \ OwnedBy(target))
                /\ logs' = ClearPerformedBy(WithoutItems(logs, OwnedBy(target)), target)
                /\ Finish(s, Response(r, 204))
    /\ UNCHANGED <<nextItemId, nextLogId, conc, tokenVars, registered>>

\* ----------------------------------------------------------- storage errors
\* InventoryChangeLog.objects.create raises (the data store fails): the
\* exception leaves the handler, the response is a server error.
AdjustLogFails(s) ==
    /\ At(s, {"adjust_quantity"}, "log")
    /\ Finish(s, Response(reqs[s], 500))
    /\ UNCHANGED <<dbVars, nreq, conc, tokenVars, registered>>

UpdateLogFails(s) ==
    /\ At(s, Updates, "log")
    /\ Finish(s, Response(reqs[s], 500))
    /\ UNCHANGED <<dbVars, nreq, conc, tokenVars, registered>>

\* ------------------------------------------------------ login and logout
Tokens == 1..MaxTokens

\* 0 is a string that no RefreshToken.for_user call has signed.
RefreshInputs == {Absent(0)} \cup {Given(t) : t \in Tokens \cup {0}}

CanStartAuth(s) ==
    /\ nreq < MaxAuthRequests
    /\ resp = NoResp
    /\ s <= conc
    /\ reqs[s] = Idle
    /\ \A t \in Slots : t < s => reqs[t] # Idle

\* RefreshToken(token): the token's signature and lifetime are verified and,
\* with the blacklist app, that it is not blacklisted; TokenError otherwise.
TokenVerifies(t) == t \in outstanding /\ t \notin expired /\ t \notin blacklist

\* user_login: LoginSerializer authenticates the credentials (good says
\* whether they match an active account); RefreshToken.for_user signs a token.
UserLogin(s) ==
    /\ CanStartAuth(s)
    /\ nreq' = nreq + 1
    /\ \E u \in UserIds, good \in BOOLEAN :
        LET r == Request("user_login", u, 0, Absent(<<>>))
            t == Cardinality(outstanding) + 1
        IN IF ~good \/ u \notin users
           THEN /\ Finish(s, [Response(r, 400) EXCEPT !.error = "Invalid credentials"])
                /\ UNCHANGED <<outstanding, naccess>>
           ELSE /\ t \in Tokens
                /\ outstanding' = outstanding \cup {t}
                /\ naccess' = naccess + 1
                /\ Finish(s, [Response(r, 200) EXCEPT !.quantity = t])
    /\ UNCHANGED <<dbVars, conc, blacklist, expired, registered>>

\* A logout that answers 200 and leaves the blacklist as it was.
UserLogoutKeepsToken(s) ==
    /\ CanStartAuth(s)
    /\ nreq' = nreq + 1
    /\ \E u \in Callers, refresh \in RefreshInputs :
        LET r == [Request("user_logout", u, 0, Absent(<<>>)) EXCEPT !.refresh = refresh]
        IN IF ~refresh.given
           THEN Finish(s, [Response(r, 400) EXCEPT !.error = "Refresh token is required"])
           ELSE IF ~TokenVerifies(refresh.val)
           THEN Finish(s, [Response(r, 400) EXCEPT !.error = "Invalid token"])
           ELSE Finish(s, Response(r, 200))
    /\ UNCHANGED <<dbVars, conc, tokenVars, registered>>

\* user_logout (get_permissions gives it no permission class)
UserLogout(s) ==
    /\ CanStartAuth(s)
    /\ nreq' = nreq + 1
    /\ \E u \in Callers, refresh \in RefreshInputs :
        LET r == [Request("user_logout", u, 0, Absent(<<>>)) EXCEPT !.refresh = refresh]
        IN IF ~refresh.given
           THEN /\ Finish(s, [Response(r, 400) EXCEPT
                                  !.error = "Refresh token is required"])
                /\ blacklist' = blacklist
           ELSE IF ~TokenVerifies(refresh.val)
           THEN /\ Finish(s, [Response(r, 400) EXCEPT !.error = "Invalid token"])
                /\ blacklist' = blacklist
           ELSE /\ blacklist' = blacklist \cup {refresh.val}
                /\ Finish(s, Response(r, 200))
    /\ UNCHANGED <<dbVars, conc, outstanding, expired, naccess, registered>>

\* POST /token/refresh/: a new access token for a refresh token that verifies.
TokenRefresh(s) ==
    /\ CanStartAuth(s)
    /\ nreq' = nreq + 1
    /\ \E u \in Callers, refresh \in RefreshInputs :
        LET r == [Request("token_refresh", u, 0, Absent(<<>>)) EXCEPT !.refresh = refresh]
        IN IF ~refresh.given
           THEN Finish(s, Response(r, 400)) /\ naccess' = naccess
           ELSE IF ~TokenVerifies(refresh.val)
           THEN Finish(s, Response(r, 401)) /\ naccess' = naccess
           ELSE Finish(s, Response(r, 200)) /\ naccess' = naccess + 1
    /\ UNCHANGED <<dbVars, conc, outstanding, blacklist, expired, registered>>

\* The lifetime of a refresh token ends.
TokenExpires ==
    /\ resp = NoResp
    /\ \E t \in outstanding \ expired : expired' = expired \cup {t}
    /\ UNCHANGED <<dbVars, reqs, resp, nreq, conc, outstanding, blacklist, naccess,
                   registered>>

\* ----------------------------------------------------------- registration
\* password = CharField(write_only=True, min_length=8)
MinPasswordLength == 8

\* An email is its text, a sequence of characters; "x" stands for the domain.
\* str.lower() on the characters in use.
LowerChar(c) ==
    CASE c = "D" -> "d" [] c = "O" -> "o" [] c = "X" -> "x" [] OTHER -> c

LowerText(t) == [k \in DOMAIN t |-> LowerChar(t[k])]

\* The emails of the three accounts.
SeedEmail(u) ==
    CASE u = "owner" -> <<"o", "@", "x">>
      [] u = "other" -> <<"t", "@", "x">>
      [] OTHER -> <<"m", "@", "x">>

\* The body of a registration: a password is given by its length.
UsernameInputs == {Absent(""), Given("u1"), Given("u2"), Given("owner")}
EmailInputs ==
    {Absent(<<>>), Given(<<"d">>), Given(<<"d", "@", "x">>), Given(<<"D", "@", "x">>),
     Given(<<"d", "@", "X">>), Given(<<"O", "@", "x">>)}
PasswordInputs == {Absent(0), Given(MinPasswordLength - 1), Given(MinPasswordLength)}

\* CustomUser.objects.all(): the usernames and the emails of the table.
UsernamesOf(us, reg) == us \cup {reg[k].username : k \in DOMAIN reg}
EmailsOf(us, reg) == {SeedEmail(u) : u \in us} \cup {reg[k].email : k \in DOMAIN reg}

\* EmailField: a local part, "@" and a domain.
ValidEmail(e) == \E k \in 2..(Len(e) - 1) : e[k] = "@"

\* The email looked up with lookup='exact'.
EmailTakenExact(e) == e \in EmailsOf(users, registered)

\* UniqueValidator(queryset=CustomUser.objects.all(), lookup='iexact')
EmailTaken(e) ==
    \E x \in EmailsOf(users, registered) : LowerText(x) = LowerText(e)

\* UserSerializer.is_valid on a registration body: the username is required
\* and unique, the email is required, well formed and not taken, the password
\* is required and long enough.
UserIsValid(username, email, password) ==
    /\ username.given
    /\ username.val \notin UsernamesOf(users, registered)
    /\ email.given
    /\ ValidEmail(email.val)
    /\ ~EmailTaken(email.val)
    /\ password.given
    /\ password.val >= MinPasswordLength

\* POST /users/ (AllowAny): UserSerializer.create stores the row.
Register(s) ==
    /\ CanStartAuth(s)
    /\ nreq' = nreq + 1
    /\ \E u \in Callers, username \in UsernameInputs, email \in EmailInputs,
          password \in PasswordInputs :
        LET r == [Request("register", u, 0, Absent(<<>>)) EXCEPT
                      !.username = username, !.email = email, !.password = password]
        IN IF ~UserIsValid(username, email, password)
           THEN /\ Finish(s, Response(r, 400))
                /\ registered' = registered
           ELSE /\ registered' = Append(registered, [username |-> username.val,
                                                     email |-> email.val])
                /\ Finish(s, Response(r, 201))
    /\ UNCHANGED <<dbVars, conc, tokenVars>>

\* ------------------------------------------------------------------- Next
ItemRequests ==
    \E s \in Slots :
        \/ Create(s)
        \/ List(s)
        \/ Levels(s)
        \/ Retrieve(s)
        \/ History(s)
        \/ Destroy(s)
        \/ AdjustStart(s)
        \/ UpdateStart(s)
        \/ UserDestroy(s)

AdjustSteps == \E s \in Slots : AdjustSave(s) \/ AdjustLog(s)

UpdateSteps == \E s \in Slots : UpdateReread(s) \/ UpdateSave(s) \/ UpdateLog(s)

StorageErrors == \E s \in Slots : AdjustLogFails(s) \/ UpdateLogFails(s)

\* Requests handled one at a time.
Next == ItemRequests \/ AdjustSteps \/ UpdateSteps \/ Deliver

Spec == Init /\ [][Next]_vars

\* Two adjust_quantity requests at a time.
InitConc == InitDb /\ conc = MaxConc
NextConc == (\E s \in Slots : AdjustStart(s)) \/ AdjustSteps \/ Deliver
SpecConc == InitConc /\ [][NextConc]_vars

\* Requests handled one at a time, the data store failing at will.
NextFault == Next \/ StorageErrors
SpecFault == Init /\ [][NextFault]_vars

\* The login, logout and token-refresh requests, one at a time.
NextAuth ==
    \/ \E s \in Slots : UserLogin(s) \/ UserLogout(s) \/ TokenRefresh(s)
    \/ TokenExpires
    \/ Deliver
SpecAuth == Init /\ [][NextAuth]_vars

\* The registration requests, one at a time.
NextRegister == (\E s \in Slots : Register(s)) \/ Deliver
SpecRegister == Init /\ [][NextRegister]_vars

\* ================================================================ claims
\* In Spec, SpecFault and SpecAuth requests run one at a time: in a state
\* with a response (resp # NoResp) the database is as the answered request
\* left it, and resp.req.items0, resp.req.logs0 are as it found it.
Answered(kinds) == resp # NoResp /\ resp.req.kind \in kinds

Range(q) == {q[k] : k \in DOMAIN q}

Detail == {"retrieve", "history", "destroy", "adjust_quantity", "update",
           "partial_update"}

\* The item pk of the database its is visible to caller u under low_stock low:
\* u is an account, the item is stored, u owns it or is staff, and a low_stock
\* threshold that parses does not cut it off.
Visible(u, pk, low, its) ==
    /\ u \in users
    /\ pk \in DOMAIN its
    /\ its[pk].user = u \/ u \in StaffIds
    /\ (low.given /\ PyIntText(low.val).ok) => its[pk].quantity < PyIntText(low.val).val

\* logs is logs0 with exactly one row more.
OneRowAdded(logs0) ==
    /\ Len(logs) = Len(logs0) + 1
    /\ SubSeq(logs, 1, Len(logs0)) = logs0

\* C1: an adjust_quantity request with an integer delta d on an item visible
\* to the caller, of quantity q, succeeds and leaves the item's quantity at
\* q + d when q + d >= 0 and at 0 when q + d < 0.
C1_AdjustFloorsAtZero ==
    LET r == resp.req IN
    (/\ Answered({"adjust_quantity"})
     /\ r.delta.t = "int"
     /\ Visible(r.user, r.pk, r.low, r.items0))
    => /\ resp.status = 200
       /\ LET q == r.items0[r.pk].quantity
              d == r.delta.n
          IN items[r.pk].quantity = (IF q + d >= 0 THEN q + d ELSE 0)

\* An adjustment whose sum is negative was answered.
C1_Witness ==
    LET r == resp.req IN
    /\ Answered({"adjust_quantity"})
    /\ resp.status = 200
    /\ r.delta.t = "int"
    /\ r.items0[r.pk].quantity + r.delta.n < 0
    /\ items[r.pk].quantity = 0

\* C2: a successful adjust_quantity on an item of quantity q adds exactly one
\* change-log row, for that item, with quantity_before = q, quantity_after =
\* the new quantity, delta = quantity_after - quantity_before and performed_by
\* = the caller; also when the delta is zero, and when the floor clamps (the
\* logged delta is then 0 - q).
C2_AdjustLogsOneRow ==
    LET r == resp.req IN
    (Answered({"adjust_quantity"}) /\ resp.status = 200)
    => /\ OneRowAdded(r.logs0)
       /\ LET row == logs[Len(logs)]
              q == r.items0[r.pk].quantity
          IN /\ row.item = r.pk
             /\ row.quantity_before = q
             /\ row.quantity_after = items[r.pk].quantity
             /\ row.delta = row.quantity_after - row.quantity_before
             /\ row.performed_by = r.user
             /\ q + PyInt(r.delta).val < 0 => row.delta = 0 - q

\* A clamped adjustment was logged with a delta that is not the requested one,
\* after an adjustment by zero was logged too.
C2_Witness ==
    LET r == resp.req IN
    /\ Answered({"adjust_quantity"})
    /\ resp.status = 200
    /\ r.items0[r.pk].quantity + PyInt(r.delta).val < 0
    /\ Len(logs) >= 2
    /\ logs[Len(logs)].delta # PyInt(r.delta).val
    /\ logs[Len(logs) - 1].delta = 0
    /\ logs[Len(logs) - 1].item = r.pk

\* C3: a successful update (PUT or PATCH) that leaves the quantity as it was
\* adds no change-log row; one that changes it from q to q2 adds exactly one
\* row with quantity_before = q, quantity_after = q2, delta = q2 - q,
\* performed_by = the caller and reason = the request's reason ("" if none).
C3_UpdateLogsQuantityChange ==
    LET r == resp.req IN
    (Answered(Updates) /\ resp.status = 200)
    => LET q == r.items0[r.pk].quantity
           q2 == items[r.pk].quantity
       IN IF q2 = q
          THEN logs = r.logs0
          ELSE /\ OneRowAdded(r.logs0)
               /\ LET row == logs[Len(logs)]
                  IN /\ row.item = r.pk
                     /\ row.quantity_before = q
                     /\ row.quantity_after = q2
                     /\ row.delta = q2 - q
                     /\ row.performed_by = r.user
                     /\ row.reason = (IF r.data.reason.given
                                      THEN r.data.reason.val ELSE "")

\* An update changed the quantity and gave a reason.
C3_Witness ==
    LET r == resp.req IN
    /\ Answered(Updates)
    /\ resp.status = 200
    /\ items[r.pk].quantity # r.items0[r.pk].quantity
    /\ r.data.reason.given
    /\ logs[Len(logs)].reason = r.data.reason.val

\* C4: a single-item request of a non-staff caller on an item of another
\* user is answered 404 or 403 and leaves items and change log as they were;
\* what list and levels show a non-staff caller are items the caller owns; a
\* staff caller is shown every item by list and levels and is never answered
\* 404 or 403 on a stored item (requests without low_stock).
C4_OwnerScoped ==
    LET r == resp.req IN
    /\ (/\ Answered(Detail)
        /\ r.user \in users \ StaffIds
        /\ r.pk \in DOMAIN r.items0
        /\ r.items0[r.pk].user # r.user)
       => /\ resp.status \in {403, 404}
          /\ items = r.items0
          /\ logs = r.logs0
    /\ (Answered({"list", "levels"}) /\ r.user \in users \ StaffIds)
       => /\ resp.status = 200
          /\ \A i \in resp.ids : i \in DOMAIN items /\ items[i].user = r.user
    /\ (Answered(Detail) /\ r.user \in users \cap StaffIds /\ ~r.low.given
        /\ r.pk \in DOMAIN r.items0)
       => resp.status \notin {401, 403, 404}
    /\ (Answered({"list", "levels"}) /\ r.user \in users \cap StaffIds /\ ~r.low.given)
       => resp.ids = DOMAIN items

\* A non-staff caller asked to adjust the item of another user.
C4_Witness ==
    LET r == resp.req IN
    /\ Answered({"adjust_quantity"})
    /\ r.user \in users \ StaffIds
    /\ r.pk \in DOMAIN items
    /\ items[r.pk].user # r.user
    /\ resp.status = 404
    /\ r.delta.t = "int"

\* C5: every stored item has quantity >= 0 and price > 0; a create request
\* of an account, or an update request on an item visible to the caller,
\* that carries a negative quantity or a price <= 0 is answered 400 and
\* leaves items and change log as they were.
C5_QuantityAndPriceValid ==
    LET r == resp.req IN
    /\ \A i \in DOMAIN items : items[i].quantity >= 0 /\ items[i].price > 0
    /\ (/\ Answered({"create"} \cup Updates)
        /\ IF r.kind = "create" THEN r.user \in users
           ELSE Visible(r.user, r.pk, r.low, r.items0)
        /\ \/ r.data.quantity.given /\ r.data.quantity.val < 0
           \/ r.data.price.given /\ r.data.price.val <= 0)
       => /\ resp.status = 400
          /\ items = r.items0
          /\ logs = r.logs0

\* An update carrying a price of zero was refused.
C5_Witness ==
    LET r == resp.req IN
    /\ Answered(Updates)
    /\ r.data.price.given
    /\ r.data.price.val = 0
    /\ ~(r.data.quantity.given /\ r.data.quantity.val < 0)
    /\ resp.status = 400
    /\ items = r.items0

\* C6: two adjust_quantity requests with deltas d1 and d2 that run at the
\* same time on one item of quantity q, with q + d1, q + d2 and q + d1 + d2
\* all >= 0, leave the quantity at q + d1 + d2.  (SpecConc starts from the
\* seeded items and runs these two requests only; the state looked at is the
\* one where the first request is answered and the second has saved.)
C6_NoLostUpdate ==
    \A s \in Slots :
        LET a == resp.req
            b == reqs[s]
        IN (/\ Answered({"adjust_quantity"})
            /\ resp.status = 200
            /\ b.kind = "adjust_quantity"
            /\ b.pc = "log"
            /\ b.pk = a.pk
            /\ LET q == SeedItems[a.pk].quantity
                   d1 == PyInt(a.delta).val
                   d2 == PyInt(b.delta).val
               IN q + d1 >= 0 /\ q + d2 >= 0 /\ q + d1 + d2 >= 0)
           => items[a.pk].quantity =
                  SeedItems[a.pk].quantity + PyInt(a.delta).val + PyInt(b.delta).val

\* C7: no update or adjust_quantity request ends with the item's quantity
\* changed and no change-log row of that request recording the change.
C7_NoPartialWrite ==
    LET r == resp.req IN
    (/\ Answered(Updates \cup {"adjust_quantity"})
     /\ r.pk \in DOMAIN r.items0
     /\ r.pk \in DOMAIN items
     /\ items[r.pk].quantity # r.items0[r.pk].quantity)
    => \E k \in (Len(r.logs0) + 1)..Len(logs) :
          /\ logs[k].item = r.pk
          /\ logs[k].quantity_before = r.items0[r.pk].quantity
          /\ logs[k].quantity_after = items[r.pk].quantity

\* C8: the item a create request makes is owned by the caller, whatever
\* "user" the body supplies.
C8_OwnerIsCaller ==
    LET r == resp.req IN
    (Answered({"create"}) /\ resp.status = 201)
    => /\ Cardinality(resp.ids) = 1
       /\ \A i \in resp.ids :
            /\ i \notin DOMAIN r.items0
            /\ i \in DOMAIN items
            /\ items[i].user = r.user
       /\ \A i \in DOMAIN r.items0 : i \in DOMAIN items /\ items[i] = r.items0[i]

\* An item was created by a caller whose request named another owner.
C8_Witness ==
    LET r == resp.req IN
    /\ Answered({"create"})
    /\ resp.status = 201
    /\ r.data.user.given
    /\ r.data.user.val # r.user
    /\ r.data.user.val \in users

\* C9: a refresh token that user_logout has blacklisted stays blacklisted; a
\* token refresh with it is refused and mints no access token; a second
\* user_logout with it is answered 400 "Invalid token"; a user_logout with
\* no refresh token is answered 400 "Refresh token is required" and
\* blacklists nothing; a user_logout answered 200 has blacklisted its token.
C9_LoggedOutTokenStaysInvalid ==
    LET r == resp.req IN
    /\ resp # NoResp => r.blacklist0 \subseteq blacklist
    /\ (Answered({"token_refresh"}) /\ r.refresh.given /\ r.refresh.val \in r.blacklist0)
       => /\ resp.status \in {400, 401}
          /\ naccess = r.naccess0
    /\ (Answered({"user_logout"}) /\ r.refresh.given /\ r.refresh.val \in r.blacklist0)
       => /\ resp.status = 400
          /\ resp.error = "Invalid token"
          /\ blacklist = r.blacklist0
    /\ (Answered({"user_logout"}) /\ ~r.refresh.given)
       => /\ resp.status = 400
          /\ resp.error = "Refresh token is required"
          /\ blacklist = r.blacklist0
    /\ (Answered({"user_logout"}) /\ resp.status = 200)
       => /\ r.refresh.given
          /\ r.refresh.val \notin r.blacklist0
          /\ blacklist = r.blacklist0 \cup {r.refresh.val}

\* A second logout with a token that a first logout blacklisted, the token
\* still within its lifetime.
C9_Witness ==
    LET r == resp.req IN
    /\ Answered({"user_logout"})
    /\ r.refresh.given
    /\ r.refresh.val \in r.blacklist0
    /\ r.refresh.val \notin expired
    /\ resp.status = 400

\* The rows of logs0 that are gone from logs, by primary key.
Gone(logs0) == {row \in Range(logs0) : \A cur \in Range(logs) : cur.id # row.id}

\* The destroy answered 204 took every row of its item and no other row.
DestroyCascades ==
    LET r == resp.req IN
    (Answered({"destroy"}) /\ resp.status = 204)
    => /\ r.pk \notin DOMAIN items
       /\ RowsOf(logs, r.pk) = <<>>
       /\ Gone(r.logs0) = {row \in Range(r.logs0) : row.item = r.pk}

\* C10 as claimed: a change-log row once created is never modified and goes
\* only with its item; deleting an item removes that item's rows and no other.
C10_RowsNeverModified ==
    LET r == resp.req IN
    /\ resp # NoResp =>
          \A row \in Range(r.logs0) :
              \/ row \in Range(logs)
              \/ row \in Gone(r.logs0) /\ row.item \notin DOMAIN items
    /\ DestroyCascades

\* C10 as amended: item, quantities, delta and reason of a row never change
\* and performed_by changes only to null, when the account that made the
\* change is deleted; a row goes only with its item; deleting an item removes
\* that item's rows and no other.
C10_RowsAppendOnly ==
    LET r == resp.req IN
    /\ resp # NoResp =>
          \A row \in Range(r.logs0) :
              \/ row \in Range(logs)
              \/ /\ [row EXCEPT !.performed_by = Null] \in Range(logs)
                 /\ row.performed_by \notin users
                 /\ Answered({"user_destroy"})
                 /\ r.target = row.performed_by
              \/ row \in Gone(r.logs0) /\ row.item \notin DOMAIN items
    /\ DestroyCascades

\* An item with a row was deleted while a row of another item stayed.
C10_Witness ==
    LET r == resp.req IN
    /\ Answered({"destroy"})
    /\ resp.status = 204
    /\ RowsOf(r.logs0, r.pk) # <<>>
    /\ logs # <<>>
    /\ Len(logs) < Len(r.logs0)

\* A delta that is missing or not an integer: null, a number with a
\* fractional part, or text that is not an optionally signed run of digits.
NotAnInteger(x) ==
    \/ x.t = "null"
    \/ x.t = "float" /\ x.n % 2 # 0
    \/ /\ x.t = "str"
       /\ ~(\/ AllDigits(x.text)
            \/ x.text # <<>> /\ x.text[1] \in {"-", "+"} /\ AllDigits(Tail(x.text)))

\* C11: an adjust_quantity request on an item visible to the caller whose
\* delta is missing or not an integer is answered 400, and it leaves the
\* items and the change-log rows as they were.
C11_OnlyIntegerDelta ==
    LET r == resp.req IN
    (/\ Answered({"adjust_quantity"})
     /\ Visible(r.user, r.pk, r.low, r.items0)
     /\ NotAnInteger(r.delta))
    => /\ resp.status = 400
       /\ items = r.items0
       /\ logs = r.logs0

\* C12: a registration whose email equals an existing account's email
\* ignoring case is answered 400 and creates no user; and no two accounts
\* have emails that are equal ignoring case.
C12_EmailsUniqueIgnoringCase ==
    LET r == resp.req IN
    /\ (/\ Answered({"register"})
        /\ r.email.given
        /\ \E x \in EmailsOf(users, r.registered0) :
               LowerText(x) = LowerText(r.email.val))
       => /\ resp.status = 400
          /\ registered = r.registered0
    /\ \A j, k \in DOMAIN registered :
           j # k => LowerText(registered[j].email) # LowerText(registered[k].email)
    /\ \A k \in DOMAIN registered : \A u \in users :
           LowerText(registered[k].email) # LowerText(SeedEmail(u))

\* A registration otherwise valid was rejected for an email that differs only
\* in case from the email of an account registered before.
C12_Witness ==
    LET r == resp.req IN
    /\ Answered({"register"})
    /\ resp.status = 400
    /\ registered = r.registered0
    /\ r.username.given
    /\ r.username.val \notin UsernamesOf(users, r.registered0)
    /\ r.password.given
    /\ r.password.val >= MinPasswordLength
    /\ r.email.given
    /\ ValidEmail(r.email.val)
    /\ r.email.val \notin EmailsOf(users, r.registered0)
    /\ \E k \in DOMAIN r.registered0 :
           LowerText(r.registered0[k].email) = LowerText(r.email.val)

\* The change-log rows of item pk, in creation order, form an unbroken chain
\* from the quantity the item was created with to its current quantity.
Chained(pk) ==
    LET rows == RowsOf(logs, pk) IN
    /\ rows # <<>> =>
          /\ rows[1].quantity_before = items[pk].quantity0
          /\ rows[Len(rows)].quantity_after = items[pk].quantity
    /\ \A k \in 2..Len(rows) : rows[k].quantity_before = rows[k - 1].quantity_after
    /\ \A k \in 1..Len(rows) :
           rows[k].delta = rows[k].quantity_after - rows[k].quantity_before

\* C13: with requests handled one at a time, whenever no request is under
\* way the change-log rows of every item form an unbroken chain: the first
\* row's quantity_before is the quantity the item was created with, each
\* later row's quantity_before is the row before's quantity_after, the newest
\* row's quantity_after is the item's quantity, and every row has delta =
\* quantity_after - quantity_before.
C13_LogChainUnbroken ==
    (\A s \in Slots : reqs[s] = Idle) => \A pk \in DOMAIN items : Chained(pk)

\* A change of quantity was answered on an item that had a row already and
\* whose quantity now differs from the one it was created with.
C13_Witness ==
    LET r == resp.req IN
    /\ Answered({"adjust_quantity", "update", "partial_update"})
    /\ resp.status = 200
    /\ \A s \in Slots : reqs[s] = Idle
    /\ RowsOf(r.logs0, r.pk) # <<>>
    /\ Len(RowsOf(logs, r.pk)) > Len(RowsOf(r.logs0, r.pk))
    /\ items[r.pk].quantity # items[r.pk].quantity0

====
